---- MODULE Spec2Model ----
(***************************************************************************)
(* Clock-domain resolution and subsystem composition of the Colorlight    *)
(* i5/i9 HDMI target (src/litex/colorlight_i5.py).                         *)
(*                                                                         *)
(* The state machine follows BaseSoC.__init__ statement by statement:      *)
(* platform creation, the four parts of _CRG.__init__ (clock domains,      *)
(* reference clock, main PLL, video PLL), SoCCore.__init__, the SPI flash, *)
(* the SDRAM and the video PHY/terminal.  A run is started either by       *)
(* main() (the argument parser, then BaseSoC) or by constructing BaseSoC   *)
(* directly with keyword arguments.                                        *)
(*                                                                         *)
(* Frequencies are integers in hertz.  Clock domains carry the names the   *)
(* source gives them: "hdmi" is the pixel clock and "hdmi5x" the           *)
(* serializer clock.                                                       *)
(***************************************************************************)
EXTENDS Integers, Sequences, FiniteSets

VARIABLES
    pc,          \* position in main()/BaseSoC.__init__
    entry,       \* "none" | "main" | "direct": how BaseSoC was invoked
    args,        \* the keyword arguments BaseSoC.__init__ runs with
    platform,    \* the board the platform was created for ("" before that)
    cds,         \* names of the ClockDomain objects the CRG holds
    clk,         \* the reference clock the CRG selected
    plls,        \* the generators: name -> [clkin, clkouts]
    subsystems,  \* the subsystem descriptors, in the order they were added
    err          \* the exception that ended the run ("none" while running)

vars == <<pc, entry, args, platform, cds, clk, plls, subsystems, err>>

----------------------------------------------------------------------------
(* Bounds of the model *)

\* sys_clk_freq ranges over FreqStep, 2*FreqStep, ..., MaxFreqSteps*FreqStep:
\* positive frequencies only.  The source itself checks no range; what the
\* PLL library does with a frequency it cannot produce is outside it.
MaxFreqSteps == 4

FreqStep == 20 * 1000000

SysClkFreqs == {k * FreqStep : k \in 1..MaxFreqSteps}

Boards == {"i5", "i9", "I5", "I9", "i7"}

SdramRates == {"1:1", "1:2", "1:4"}

\* integrated_main_ram_size as SoCCore takes it from **kwargs.
MainRamSizes == {0, 8192}

----------------------------------------------------------------------------
(* Program constants *)

Clk25Freq == 25000000

OscgDiv == 5

OscgMasterFreq == 310000000

PsPhase == 180

PixelClkFreq == 40000000

SerialClkFreq == 200000000

L2CacheSizeDefault == 8192

----------------------------------------------------------------------------
(* Pure parts of the source *)

\* str.lower() / str.upper() on the board identifiers of the model.
Lower(b) ==
    CASE b = "I5" -> "i5"
      [] b = "I9" -> "i9"
      [] OTHER    -> b

Upper(b) ==
    CASE b = "i5" -> "I5"
      [] b = "i9" -> "I9"
      [] b = "i7" -> "I7"
      [] OTHER    -> b

\* The keyword defaults of BaseSoC.__init__.
DefaultArgs ==
    [board                    |-> "i5",
     sys_clk_freq             |-> 60000000,
     use_internal_osc         |-> FALSE,
     sdram_rate               |-> "1:1",
     with_video_terminal      |-> FALSE,
     with_video_framebuffer   |-> FALSE,
     integrated_main_ram_size |-> 0]

\* The mutually exclusive group of the argument parser: it accepts at most
\* one of --with-video-terminal / --with-video-framebuffer.
ParserAccepts(vt, vfb) == ~(vt /\ vfb)

\* The ClockDomain objects _CRG.__init__ creates.
CoreDomains_BothShapes(sdram_rate) ==
    {"sys", "sys2x", "sys2x_ps", "sys_ps"}

CoreDomains(sdram_rate) ==
    {"sys"} \cup (IF sdram_rate = "1:2" THEN {"sys2x", "sys2x_ps"}
                                        ELSE {"sys_ps"})

\* The reference clock: the 25 MHz pin, or the internal oscillator divided.
ClockSource(use_internal_osc) ==
    IF ~use_internal_osc
    THEN [name |-> "clk25", freq |-> Clk25Freq, external |-> TRUE]
    ELSE [name |-> "OSCG", freq |-> OscgMasterFreq \div OscgDiv,
          external |-> FALSE]

NoClk == [name |-> "none", freq |-> 0, external |-> FALSE]

\* One create_clkout call.  margin is "default" when the call leaves it out.
Clkout(cd, freq, phase, margin) ==
    [cd |-> cd, freq |-> freq, phase |-> phase, margin |-> margin]

\* The create_clkout calls on the main PLL, in order.
CoreClkouts_NoPhase(sys_clk_freq, sdram_rate) ==
    <<Clkout("sys", sys_clk_freq, 0, "default")>> \o
    (IF sdram_rate = "1:2"
     THEN <<Clkout("sys2x",    2 * sys_clk_freq, 0, "default"),
            Clkout("sys2x_ps", 2 * sys_clk_freq, 0, "default")>>
     ELSE <<Clkout("sys_ps", sys_clk_freq, 0, "default")>>)

CoreClkouts(sys_clk_freq, sdram_rate) ==
    <<Clkout("sys", sys_clk_freq, 0, "default")>> \o
    (IF sdram_rate = "1:2"
     THEN <<Clkout("sys2x",    2 * sys_clk_freq, 0,       "default"),
            Clkout("sys2x_ps", 2 * sys_clk_freq, PsPhase, "default")>>
     ELSE <<Clkout("sys_ps", sys_clk_freq, PsPhase, "default")>>)

\* The create_clkout calls on the video PLL, in order.
VideoClkouts_SerialAtPixelRate ==
    <<Clkout("hdmi",   PixelClkFreq, 0, "zero"),
      Clkout("hdmi5x", PixelClkFreq, 0, "zero")>>

VideoClkouts ==
    <<Clkout("hdmi",   PixelClkFreq,  0, "zero"),
      Clkout("hdmi5x", SerialClkFreq, 0, "zero")>>

\* with_video_pll as BaseSoC.__init__ computes it for the CRG.
WithVideoPll_TerminalOnly(vt, vfb) == vt

WithVideoPll(vt, vfb) == vt \/ vfb

\* The condition under which BaseSoC.__init__ adds the video PHY/terminal.
WithVideo_Always(vt, vfb) == TRUE

WithVideo(vt, vfb) == vt \/ vfb

\* The flash module the two import statements bind; "unbound" when neither
\* runs, so that its use raises UnboundLocalError.
SpiFlashModule(board) ==
    CASE board = "i5" -> "GD25Q16"
      [] board = "i9" -> "W25Q64"
      [] OTHER        -> "unbound"

\* The SDRAM PHY class.
SdrPhyCls(sdram_rate) ==
    IF sdram_rate = "1:2" THEN "HalfRateGENSDRPHY" ELSE "GENSDRPHY"

\* The clock domains a PHY class runs in: the half-rate PHY additionally
\* uses the double-rate domain.
PhyDomains(cls) ==
    IF cls = "HalfRateGENSDRPHY" THEN {"sys", "sys2x"} ELSE {"sys"}

\* The subsystem descriptors.
CoreDescriptor(a) ==
    [kind |-> "core", refs |-> {"sys"},
     cfg  |-> [clk_freq |-> a.sys_clk_freq, ident |-> Upper(a.board)]]

SpiFlashDescriptor(a) ==
    [kind |-> "spi_flash", refs |-> {"sys"},
     cfg  |-> [mode |-> "1x", module |-> SpiFlashModule(a.board)]]

SdramDescriptor(a) ==
    [kind |-> "sdram", refs |-> PhyDomains(SdrPhyCls(a.sdram_rate)),
     cfg  |-> [phy           |-> SdrPhyCls(a.sdram_rate),
               module        |-> "M12L64322A",
               clk_freq      |-> a.sys_clk_freq,
               rate          |-> a.sdram_rate,
               l2_cache_size |-> L2CacheSizeDefault]]

\* The HDMI PHY serializes on "<clock_domain>5x".
VideoDescriptor_ByFlag(a) ==
    [kind |-> IF a.with_video_framebuffer THEN "video_framebuffer"
                                          ELSE "video_terminal",
     refs |-> {"hdmi", "hdmi5x"},
     cfg  |-> [phy |-> "VideoHDMIPHY", timings |-> "800x600@60Hz",
               clock_domain |-> "hdmi"]]

VideoDescriptor(a) ==
    [kind |-> "video_terminal", refs |-> {"hdmi", "hdmi5x"},
     cfg  |-> [phy |-> "VideoHDMIPHY", timings |-> "800x600@60Hz",
               clock_domain |-> "hdmi"]]

\* The order of the statements of BaseSoC.__init__ (the CRG's four parts in
\* the order of _CRG.__init__).
InitSteps_CoreBeforeCrg ==
    <<"platform", "soccore", "crg_domains", "crg_clk", "crg_pll",
      "crg_video_pll", "spi_flash", "sdram", "video">>

InitSteps ==
    <<"platform", "crg_domains", "crg_clk", "crg_pll", "crg_video_pll",
      "soccore", "spi_flash", "sdram", "video">>

StepIndex(s) == CHOOSE i \in 1..Len(InitSteps) : InitSteps[i] = s

After(s) ==
    IF StepIndex(s) = Len(InitSteps) THEN "done"
    ELSE InitSteps[StepIndex(s) + 1]

----------------------------------------------------------------------------
(* The state machine *)

Init ==
    /\ pc = "start"
    /\ entry = "none"
    /\ args = DefaultArgs
    /\ platform = ""
    /\ cds = {}
    /\ clk = NoClk
    /\ plls = <<>>
    /\ subsystems = <<>>
    /\ err = "none"

\* main(): parse the command line, then construct BaseSoC.  main() passes no
\* use_internal_osc, so the default stays.
Main ==
    /\ pc = "start"
    /\ \E b \in Boards, f \in SysClkFreqs, r \in SdramRates,
          vt \in BOOLEAN, vfb \in BOOLEAN, ram \in MainRamSizes :
          /\ entry' = "main"
          /\ args' = [board                    |-> b,
                      sys_clk_freq             |-> f,
                      use_internal_osc         |-> FALSE,
                      sdram_rate               |-> r,
                      with_video_terminal      |-> vt,
                      with_video_framebuffer   |-> vfb,
                      integrated_main_ram_size |-> ram]
          /\ IF ParserAccepts(vt, vfb)
             THEN pc' = InitSteps[1] /\ err' = "none"
             ELSE pc' = "failed" /\ err' = "ArgumentError"
    /\ UNCHANGED <<platform, cds, clk, plls, subsystems>>

\* BaseSoC(...) constructed directly with keyword arguments.
Construct ==
    /\ pc = "start"
    /\ \E b \in Boards, f \in SysClkFreqs, o \in BOOLEAN, r \in SdramRates,
          vt \in BOOLEAN, vfb \in BOOLEAN, ram \in MainRamSizes :
          args' = [board                    |-> b,
                   sys_clk_freq             |-> f,
                   use_internal_osc         |-> o,
                   sdram_rate               |-> r,
                   with_video_terminal      |-> vt,
                   with_video_framebuffer   |-> vfb,
                   integrated_main_ram_size |-> ram]
    /\ entry' = "direct"
    /\ pc' = InitSteps[1]
    /\ UNCHANGED <<platform, cds, clk, plls, subsystems, err>>

\* board = board.lower(); the platform is created for it.
Platform ==
    /\ pc = "platform"
    /\ args' = [args EXCEPT !.board = Lower(args.board)]
    /\ platform' = Lower(args.board)
    /\ pc' = After("platform")
    /\ UNCHANGED <<entry, cds, clk, plls, subsystems, err>>

\* _CRG.__init__: cd_sys and the companions of the SDRAM rate.
CrgDomains ==
    /\ pc = "crg_domains"
    /\ cds' = cds \cup CoreDomains(args.sdram_rate)
    /\ pc' = After("crg_domains")
    /\ UNCHANGED <<entry, args, platform, clk, plls, subsystems, err>>

\* _CRG.__init__: the reference clock.
CrgClk ==
    /\ pc = "crg_clk"
    /\ clk' = ClockSource(args.use_internal_osc)
    /\ pc' = After("crg_clk")
    /\ UNCHANGED <<entry, args, platform, cds, plls, subsystems, err>>

\* _CRG.__init__: the main PLL and its outputs.
CrgPll ==
    /\ pc = "crg_pll"
    /\ plls' = [n \in (DOMAIN plls) \cup {"pll"} |->
                  IF n = "pll"
                  THEN [clkin   |-> clk,
                        clkouts |-> CoreClkouts(args.sys_clk_freq,
                                                args.sdram_rate)]
                  ELSE plls[n]]
    /\ pc' = After("crg_pll")
    /\ UNCHANGED <<entry, args, platform, cds, clk, subsystems, err>>

\* _CRG.__init__: the video PLL, its two clock domains and its outputs.
CrgVideoPll ==
    /\ pc = "crg_video_pll"
    /\ IF WithVideoPll(args.with_video_terminal, args.with_video_framebuffer)
       THEN /\ plls' = [n \in (DOMAIN plls) \cup {"video_pll"} |->
                          IF n = "video_pll"
                          THEN [clkin |-> clk, clkouts |-> VideoClkouts]
                          ELSE plls[n]]
            /\ cds' = cds \cup {"hdmi", "hdmi5x"}
       ELSE UNCHANGED <<plls, cds>>
    /\ pc' = After("crg_video_pll")
    /\ UNCHANGED <<entry, args, platform, clk, subsystems, err>>

\* SoCCore.__init__: the mandatory core.
SoCCoreInit ==
    /\ pc = "soccore"
    /\ subsystems' = Append(subsystems, CoreDescriptor(args))
    /\ pc' = After("soccore")
    /\ UNCHANGED <<entry, args, platform, cds, clk, plls, err>>

\* The SPI flash: the use of a module no import bound raises.
SpiFlash ==
    /\ pc = "spi_flash"
    /\ IF SpiFlashModule(args.board) = "unbound"
       THEN /\ pc' = "failed"
            /\ err' = "UnboundLocalError"
            /\ UNCHANGED subsystems
       ELSE /\ subsystems' = Append(subsystems, SpiFlashDescriptor(args))
            /\ pc' = After("spi_flash")
            /\ UNCHANGED err
    /\ UNCHANGED <<entry, args, platform, cds, clk, plls>>

\* The SDRAM, unless main RAM is already integrated.
Sdram ==
    /\ pc = "sdram"
    /\ IF args.integrated_main_ram_size = 0
       THEN subsystems' = Append(subsystems, SdramDescriptor(args))
       ELSE UNCHANGED subsystems
    /\ pc' = After("sdram")
    /\ UNCHANGED <<entry, args, platform, cds, clk, plls, err>>

\* The video PHY and the video terminal.
Video ==
    /\ pc = "video"
    /\ IF WithVideo(args.with_video_terminal, args.with_video_framebuffer)
       THEN subsystems' = Append(subsystems, VideoDescriptor(args))
       ELSE UNCHANGED subsystems
    /\ pc' = After("video")
    /\ UNCHANGED <<entry, args, platform, cds, clk, plls, err>>

Next ==
    \/ Main
    \/ Construct
    \/ Platform
    \/ CrgDomains
    \/ CrgClk
    \/ CrgPll
    \/ CrgVideoPll
    \/ SoCCoreInit
    \/ SpiFlash
    \/ Sdram
    \/ Video

Spec == Init /\ [][Next]_vars

----------------------------------------------------------------------------
(* Views of the state the properties are stated over *)

\* The steps up to and including s have run.  A run that raised at the SPI
\* flash had completed every step before it.
Past(s) ==
    \/ pc = "done"
    \/ /\ pc = "failed"
       /\ err = "UnboundLocalError"
       /\ StepIndex("spi_flash") > StepIndex(s)
    \/ /\ pc \notin {"start", "done", "failed"}
       /\ StepIndex(pc) > StepIndex(s)

\* The clock domains of the plan: a ClockDomain the CRG holds, driven by an
\* output of one of its generators.
Domains ==
    {[name  |-> plls[n].clkouts[i].cd,
      freq  |-> plls[n].clkouts[i].freq,
      phase |-> plls[n].clkouts[i].phase,
      pll   |-> n] :
        <<n, i>> \in {x \in (DOMAIN plls) \X (1..3) :
                        /\ x[2] <= Len(plls[x[1]].clkouts)
                        /\ plls[x[1]].clkouts[x[2]].cd \in cds}}

DomainNames == {d.name : d \in Domains}

DomainsOf(n) == {d \in Domains : d.pll = n}

Dom(name, freq, phase, n) ==
    [name |-> name, freq |-> freq, phase |-> phase, pll |-> n]

\* The descriptor list reduced to kinds and referenced domains.
Shape(descs) == [i \in 1..Len(descs) |->
                    [kind |-> descs[i].kind, refs |-> descs[i].refs]]

Descriptors == {subsystems[i] : i \in 1..Len(subsystems)}

DisplayDescriptors ==
    {d \in Descriptors : d.refs \cap {"hdmi", "hdmi5x"} # {}
                         \/ d.kind \in {"video_terminal", "video_framebuffer"}}

BothFlags == args.with_video_terminal /\ args.with_video_framebuffer

OneFlag == args.with_video_terminal # args.with_video_framebuffer

NoFlag == ~args.with_video_terminal /\ ~args.with_video_framebuffer

----------------------------------------------------------------------------
(* Properties *)

\* C1: once the main PLL is set up, the plan has "sys" at sys_clk_freq and
\* exactly one of two shapes: for rate "1:2", sys2x at 2 x sys_clk_freq and
\* sys2x_ps at 2 x sys_clk_freq with phase 180, and no sys_ps; for rate
\* "1:1", sys_ps at sys_clk_freq with phase 180, and neither sys2x nor
\* sys2x_ps.  In no state do sys_ps and sys2x or sys2x_ps coexist, neither
\* as ClockDomain objects nor as PLL outputs.
C1_CoreShapesExclusive ==
    LET f     == args.sys_clk_freq
        names == cds \cup DomainNames
    IN  /\ ~("sys_ps" \in names /\ names \cap {"sys2x", "sys2x_ps"} # {})
        /\ Past("crg_pll") =>
             /\ Dom("sys", f, 0, "pll") \in Domains
             /\ args.sdram_rate = "1:2" =>
                  DomainsOf("pll") = {Dom("sys", f, 0, "pll"),
                                      Dom("sys2x", 2 * f, 0, "pll"),
                                      Dom("sys2x_ps", 2 * f, 180, "pll")}
             /\ args.sdram_rate = "1:1" =>
                  DomainsOf("pll") = {Dom("sys", f, 0, "pll"),
                                      Dom("sys_ps", f, 180, "pll")}

C1_Witness ==
    /\ pc = "done"
    /\ args.sdram_rate = "1:2"
    /\ Dom("sys2x_ps", 2 * args.sys_clk_freq, 180, "pll") \in Domains

\* C2: a composition with both with_video_terminal and
\* with_video_framebuffer set never completes, whatever the other
\* parameters.
C2_BothFlagsNeverCompose ==
    (entry # "none" /\ BothFlags) => pc # "done"

\* C3: once the CRG is built with exactly one display flag set, exactly two
\* clock domains exist beyond the core ones: hdmi at 40 MHz and hdmi5x at
\* 200 MHz, five times the pixel clock, both outputs of the video PLL, a
\* generator other than the main PLL and fed by the same reference clock at
\* the same frequency.
C3_DisplayDomains ==
    (Past("crg_video_pll") /\ OneFlag) =>
        /\ {"pll", "video_pll"} \subseteq DOMAIN plls
        /\ Domains \ DomainsOf("pll") =
              {Dom("hdmi",   40000000,  0, "video_pll"),
               Dom("hdmi5x", 200000000, 0, "video_pll")}
        /\ Cardinality(Domains) = Cardinality(DomainsOf("pll")) + 2
        /\ {"hdmi", "hdmi5x"} \cap {d.name : d \in DomainsOf("pll")} = {}
        /\ plls["video_pll"].clkin = plls["pll"].clkin
        /\ plls["video_pll"].clkin = ClockSource(args.use_internal_osc)
        /\ \A p \in Domains, s \in Domains :
              (p.name = "hdmi" /\ s.name = "hdmi5x") => s.freq = 5 * p.freq

C3_Witness ==
    /\ pc = "done"
    /\ args.with_video_framebuffer
    /\ ~args.with_video_terminal
    /\ args.use_internal_osc
    /\ Dom("hdmi5x", 200000000, 0, "video_pll") \in Domains

\* C4: with both display flags unset there is never a display clock domain,
\* a video PLL or a display descriptor.
C4_NoDisplayWhenUnset ==
    (entry # "none" /\ NoFlag) =>
        /\ "video_pll" \notin DOMAIN plls
        /\ cds \cap {"hdmi", "hdmi5x"} = {}
        /\ DomainNames \cap {"hdmi", "hdmi5x"} = {}
        /\ DisplayDescriptors = {}

C4_Witness ==
    /\ pc = "done"
    /\ NoFlag
    /\ Len(subsystems) = 3

\* C5: descriptors are only ever appended; the first one appended is the
\* core; and whenever one is appended, the CRG is complete and every clock
\* domain the descriptor references is already in the plan.
C5_CoreFirstDomainsBeforeUse ==
    [][subsystems' # subsystems =>
         /\ Len(subsystems') = Len(subsystems) + 1
         /\ SubSeq(subsystems', 1, Len(subsystems)) = subsystems
         /\ subsystems'[1].kind = "core"
         /\ Past("crg_video_pll")
         /\ subsystems'[Len(subsystems')].refs \subseteq DomainNames]_vars

C5_Witness ==
    /\ pc = "done"
    /\ Shape(subsystems) =
          <<[kind |-> "core",           refs |-> {"sys"}],
            [kind |-> "spi_flash",      refs |-> {"sys"}],
            [kind |-> "sdram",          refs |-> {"sys", "sys2x"}],
            [kind |-> "video_terminal", refs |-> {"hdmi", "hdmi5x"}]>>

\* C7 as stated: for sys_clk_freq = 60e6, rate "1:1" and the terminal flag,
\* the completed plan has exactly the domains sys (60 MHz), sys_ps (60 MHz,
\* phase 180), hdmi (40 MHz), hdmi5x (200 MHz) and exactly the descriptors
\* core, memory(sys), display(hdmi, hdmi5x).
Scenario60 ==
    /\ pc = "done"
    /\ args.sys_clk_freq = 60000000
    /\ args.sdram_rate = "1:1"
    /\ args.with_video_terminal
    /\ ~args.with_video_framebuffer

Scenario60Domains ==
    {Dom("sys",    60000000,  0,   "pll"),
     Dom("sys_ps", 60000000,  180, "pll"),
     Dom("hdmi",   40000000,  0,   "video_pll"),
     Dom("hdmi5x", 200000000, 0,   "video_pll")}

C7_ScenarioAsStated ==
    Scenario60 =>
        /\ Domains = Scenario60Domains
        /\ Shape(subsystems) =
              <<[kind |-> "core",           refs |-> {"sys"}],
                [kind |-> "sdram",          refs |-> {"sys"}],
                [kind |-> "video_terminal", refs |-> {"hdmi", "hdmi5x"}]>>

\* C7 as amended: in that scenario, with no main RAM integrated, the
\* completed plan has exactly those four domains and exactly the descriptors
\* core, boot flash, memory(sys), display(hdmi, hdmi5x), in that order.
C7_ScenarioWithBootFlash ==
    (Scenario60 /\ args.integrated_main_ram_size = 0) =>
        /\ Domains = Scenario60Domains
        /\ Shape(subsystems) =
              <<[kind |-> "core",           refs |-> {"sys"}],
                [kind |-> "spi_flash",      refs |-> {"sys"}],
                [kind |-> "sdram",          refs |-> {"sys"}],
                [kind |-> "video_terminal", refs |-> {"hdmi", "hdmi5x"}]>>

C7_Witness ==
    /\ Scenario60
    /\ args.integrated_main_ram_size = 0
    /\ Len(subsystems) = 4

\* C8: in every state every clock domain an emitted descriptor references is
\* present in the plan; a display descriptor exists only with the video PLL
\* and its two domains, and the memory descriptor of the half-rate PHY only
\* with sys2x (and never with sys_ps), that of the full-rate PHY only with
\* sys_ps.
C8_ReferencesResolve ==
    \A d \in Descriptors :
        /\ d.refs \subseteq DomainNames
        /\ d \in DisplayDescriptors =>
              /\ "video_pll" \in DOMAIN plls
              /\ {"hdmi", "hdmi5x"} \subseteq DomainNames
        /\ d.kind = "sdram" =>
              IF d.cfg.phy = "HalfRateGENSDRPHY"
              THEN {"sys2x", "sys2x_ps"} \subseteq DomainNames
                   /\ "sys_ps" \notin DomainNames
              ELSE "sys_ps" \in DomainNames
                   /\ DomainNames \cap {"sys2x", "sys2x_ps"} = {}

C8_Witness ==
    /\ pc = "done"
    /\ args.with_video_framebuffer
    /\ ~args.with_video_terminal
    /\ \E d \in Descriptors : d.kind = "sdram" /\ "sys2x" \in d.refs
    /\ DisplayDescriptors # {}

\* The failures that report a configuration error to the user: the
\* argument parser's usage error.  An unbound name is a crash.
ReportedConfigErrors == {"ArgumentError"}

\* C9: the flash descriptor's module is GD25Q16 for board "i5" and W25Q64
\* for "i9" (after lower-casing); for any other board the composition never
\* completes, emits no flash descriptor, and the failure that ends it is a
\* reported configuration error.
C9_UnknownBoardConfigError ==
    /\ \A d \in Descriptors : d.kind = "spi_flash" =>
          \/ platform = "i5" /\ d.cfg.module = "GD25Q16"
          \/ platform = "i9" /\ d.cfg.module = "W25Q64"
    /\ (entry # "none" /\ Lower(args.board) \notin {"i5", "i9"}) =>
          /\ pc # "done"
          /\ \A d \in Descriptors : d.kind # "spi_flash"
          /\ pc = "failed" => err \in ReportedConfigErrors

====
